---- MODULE Spec2Model ----
(***************************************************************************)
(* State-machine model of the python-enum library (src/enum/__init__.py).  *)
(*                                                                         *)
(* The state is the caller's program after `import enum`: the heap of      *)
(* EnumItem objects, the EnumItem references the caller holds, the table   *)
(* of classes created so far (object, Enum, NonUniqueEnum and the classes  *)
(* the caller declared), and the outcome of the last statement executed.   *)
(* One action per statement kind: constructing an EnumItem, a class        *)
(* statement (which runs MetaEnum.__init__), and the class-level queries.  *)
(* nstmt counts the class statements run so far; it only bounds the run.   *)
(* The code is Python 2 (print statements, __metaclass__), and the model   *)
(* follows Python 2 semantics.                                             *)
(***************************************************************************)
EXTENDS Integers, Sequences, FiniteSets, TLC

VARIABLES heap, held, classes, nstmt, last

vars == <<heap, held, classes, nstmt, last>>

----------------------------------------------------------------------------
(* Bounds of the model. *)

MaxKey == 2
MaxClasses == 1
MaxItems == 1
MaxBody == 2
MaxBases == 2

----------------------------------------------------------------------------
(* Python values.  A string is the sequence of its characters, so that     *)
(* str.startswith can be computed.  One record shape for every value:      *)
(* t is the type, i the integer payload (an int, a tuple's element 0, an   *)
(* EnumItem's heap address), s the string payload (a str, a tuple's        *)
(* element 1, a dict's single keyword), m a 3-tuple's element 2.           *)

PyNone == [t |-> "None", i |-> 0, s |-> <<>>, m |-> <<>>]
PyFalse == [t |-> "bool", i |-> 0, s |-> <<>>, m |-> <<>>]
PyInt(n) == [t |-> "int", i |-> n, s |-> <<>>, m |-> <<>>]
PyStr(x) == [t |-> "str", i |-> 0, s |-> x, m |-> <<>>]
PyDict(kw) == [t |-> "dict", i |-> 0, s |-> kw, m |-> <<>>]
PyTuple2(k, label) == [t |-> "tuple2", i |-> k, s |-> label, m |-> <<>>]
PyTuple3(k, label, meta) == [t |-> "tuple3", i |-> k, s |-> label, m |-> meta]
PyFunc == [t |-> "function", i |-> 0, s |-> <<>>, m |-> <<>>]
PyItem(id) == [t |-> "EnumItem", i |-> id, s |-> <<>>, m |-> <<>>]

(* Truth value of a Python object: None, False, 0, '' and {} are false. *)
Truthy(v) ==
    CASE v.t = "None" -> FALSE
      [] v.t = "bool" -> v.i # 0
      [] v.t = "int" -> v.i # 0
      [] v.t = "str" -> v.s # <<>>
      [] v.t = "dict" -> v.s # <<>>
      [] OTHER -> TRUE

(* a != b.  Values of unrelated types never compare equal; an EnumItem     *)
(* defines no __eq__, so it equals only itself.                            *)
PyNe(a, b) == a # b

(* len(val) of a tuple value. *)
PyLen(v) == IF v.t = "tuple3" THEN 3 ELSE 2

(* hasattr(val, '__iter__'): true of tuples, false of int and str. *)
HasIter(v) == v.t \in {"tuple2", "tuple3"}

(* inspect.isroutine(val) *)
IsRoutine(v) == v.t = "function"

(* name.startswith(prefix) for a one-character prefix *)
StartsWith(name, ch) == Len(name) > 0 /\ name[1] = ch

----------------------------------------------------------------------------
(* Input domains. *)

Keys == 0..MaxKey
Names == {<<"A">>, <<"B">>, <<"_", "Z">>}
Labels == {<<"x">>, <<"y">>}
Metas == {<<"m">>}
ClassNames == {"T", "Enum"}

ObjectId == 1
EnumId == 2
NonUniqueEnumId == 3

Range(s) == {s[j] : j \in 1..Len(s)}

(* All orderings of a finite set, as sequences: the iteration orders a     *)
(* Python 2 dict with string keys may have.                                *)
Perms(S) ==
    {p \in [1..Cardinality(S) -> S] : \A a, b \in 1..Cardinality(S) : p[a] = p[b] => a = b}

EmptyDict == [x \in {} |-> PyNone]
DictSet(d, k, v) == [x \in (DOMAIN d) \cup {k} |-> IF x = k THEN v ELSE d[x]]
DictUpdate(d, e) == [x \in (DOMAIN d) \cup (DOMAIN e) |-> IF x \in DOMAIN e THEN e[x] ELSE d[x]]

----------------------------------------------------------------------------
(* EnumItem.__init__(key, value, name=None, sort=None, **metadata) *)
EnumItem(key, value, name, sort, metadata) ==
    [key |-> key, value |-> value, name |-> name, sort |-> sort, metadata |-> metadata]

----------------------------------------------------------------------------
(* Classes.  A class statement hands MetaEnum.__init__ the class name, the *)
(* bases and the body's namespace `attrs`.  A body is the plain attributes *)
(* it binds plus, when it binds `enums` (the legacy table), that table.    *)

EmptyBody == [attrs |-> EmptyDict, legacy |-> FALSE, enums |-> EmptyDict]

(* Method resolution order: the C3 merge type() computes for a new class.  *)
(* ok is FALSE when no consistent order exists (type() raises TypeError).  *)
RECURSIVE C3Merge(_)
C3Merge(seqs) ==
    LET ne == SelectSeq(seqs, LAMBDA q : Len(q) > 0)
        good == {a \in 1..Len(ne) : \A b \in 1..Len(ne) : Head(ne[a]) \notin Range(Tail(ne[b]))}
    IN  IF Len(ne) = 0 THEN [ok |-> TRUE, mro |-> <<>>]
        ELSE IF good = {} THEN [ok |-> FALSE, mro |-> <<>>]
        ELSE LET a == CHOOSE x \in good : \A y \in good : x <= y
                 h == Head(ne[a])
                 rest == [b \in 1..Len(ne) |-> IF Head(ne[b]) = h THEN Tail(ne[b]) ELSE ne[b]]
                 r == C3Merge(rest)
             IN  [ok |-> r.ok, mro |-> <<h>> \o r.mro]

(* A class statement with no base gets `object` as its only base. *)
Linearize(table, bases) ==
    LET eff == IF bases = <<>> THEN <<ObjectId>> ELSE bases
        r == C3Merge([b \in 1..Len(eff) |-> table[eff[b]].mro] \o <<eff>>)
    IN  [ok |-> r.ok, mro |-> <<Len(table) + 1>> \o r.mro]

(* issubclass(mcs, NonUniqueEnum), mcs given by its resolution order *)
IsNonUnique(mro) == NonUniqueEnumId \in Range(mro)

(* Iteration order of a registry: a Python 2 dict of small non-negative    *)
(* ints iterates in ascending key order (the doctests rely on it).         *)
RECURSIVE SortedKeys(_)
SortedKeys(S) ==
    IF S = {} THEN <<>>
    ELSE LET k == CHOOSE x \in S : \A y \in S : x <= y
         IN  <<k>> \o SortedKeys(S \ {k})

(* Lines 14-16: the conflict test of one base's registry against the       *)
(* accumulator.                                                            *)
BaseConflict(h, strict, item_dict, base_dict) ==
    \E k \in DOMAIN base_dict :
        /\ strict
        /\ k \in DOMAIN item_dict
        /\ \/ h[item_dict[k]].key # h[base_dict[k]].key
           \/ PyNe(h[item_dict[k]].value, h[base_dict[k]].value)

(* Lines 12-18: merge the registries of the bases, left to right. *)
RECURSIVE MergeBases(_, _, _, _, _)
MergeBases(table, h, strict, bases, item_dict) ==
    IF bases = <<>> THEN [exc |-> "", item_dict |-> item_dict]
    ELSE LET base == table[Head(bases)]
         IN  IF ~base.has_item_dict
             THEN MergeBases(table, h, strict, Tail(bases), item_dict)
             ELSE IF BaseConflict(h, strict, item_dict, base.item_dict)
             THEN [exc |-> "Exception", item_dict |-> item_dict]
             ELSE MergeBases(table, h, strict, Tail(bases),
                             DictUpdate(item_dict, base.item_dict))

(* Lines 20-27: the (name, value) pairs the body loop runs over, in the    *)
(* dict order `order`; underscore_check says whether line 30 tests names.  *)
UnderscoreCheck(body) == ~body.legacy

Enums(name, body, order) ==
    IF name = "Enum" THEN <<>>
    ELSE IF body.legacy THEN [j \in 1..Len(order) |-> <<order[j], body.enums[order[j]]>>]
    ELSE [j \in 1..Len(order) |-> <<order[j], body.attrs[order[j]]>>]

(* Line 30: whether the loop skips the pair. *)
Skipped(underscore_check, name, val) ==
    (underscore_check /\ StartsWith(name, "_")) \/ IsRoutine(val)

(* Lines 33-40: the EnumItem of a declared value; a new one is allocated   *)
(* at the end of the heap.                                                 *)
MakeItem(h, name, val) ==
    IF val.t = "EnumItem" THEN [heap |-> h, id |-> val.i]
    ELSE IF HasIter(val)
    THEN LET made == EnumItem(val.i, PyStr(val.s), PyNone, PyInt(val.i), PyDict(<<>>))
             item == IF PyLen(val) > 2 THEN [made EXCEPT !.metadata = PyStr(val.m)] ELSE made
         IN  [heap |-> Append(h, item), id |-> Len(h) + 1]
    ELSE [heap |-> Append(h, EnumItem(val.i, PyStr(name), PyNone, PyNone, PyDict(<<>>))),
          id |-> Len(h) + 1]

(* Line 44 as it would be without the setattr: the class attribute keeps   *)
(* the value the body declared.                                            *)
SetAttr_Skipped(dict, name, key) == dict

(* Line 44: setattr(mcs, name, item.key) on the namespace of the class. *)
SetAttr(dict, name, key) == DictSet(dict, name, PyInt(key))

(* Line 45: the conflict test of a body declaration. *)
BodyConflict(strict, item_dict, key, name) ==
    /\ strict
    /\ key \in DOMAIN item_dict
    /\ PyNe(PyItem(item_dict[key]), PyStr(name))

(* Lines 29-47: the body loop.  An exception leaves the renames already    *)
(* made to EnumItem objects in place.                                      *)
RECURSIVE BodyLoop(_, _, _, _, _, _)
BodyLoop(enums, underscore_check, strict, h, dict, item_dict) ==
    IF enums = <<>> THEN [exc |-> "", heap |-> h, dict |-> dict, item_dict |-> item_dict]
    ELSE LET name == enums[1][1]
             val == enums[1][2]
         IN  IF Skipped(underscore_check, name, val)
             THEN BodyLoop(Tail(enums), underscore_check, strict, h, dict, item_dict)
             ELSE LET made == MakeItem(h, name, val)
                      h2 == [made.heap EXCEPT ![made.id].name = PyStr(name)]
                      key == h2[made.id].key
                      dict2 == SetAttr(dict, name, key)
                  IN  IF BodyConflict(strict, item_dict, key, name)
                      THEN [exc |-> "Exception", heap |-> h2, dict |-> dict2,
                            item_dict |-> item_dict]
                      ELSE BodyLoop(Tail(enums), underscore_check, strict, h2, dict2,
                                    DictSet(item_dict, key, made.id))

(* MetaEnum.__init__(mcs, name, bases, attrs), for a class whose           *)
(* resolution order is mro.  On an exception the class is dropped and the  *)
(* items it allocated are garbage; renames of older items remain.          *)
MetaEnumInit(table, h, name, bases, body, order, mro) ==
    LET strict == ~IsNonUnique(mro)
        merged == MergeBases(table, h, strict, bases, EmptyDict)
        looped == BodyLoop(Enums(name, body, order), UnderscoreCheck(body), strict,
                           h, body.attrs, merged.item_dict)
    IN  IF merged.exc # "" THEN [exc |-> merged.exc, heap |-> h, cls |-> table[ObjectId]]
        ELSE IF looped.exc # ""
        THEN [exc |-> looped.exc, heap |-> SubSeq(looped.heap, 1, Len(h)),
              cls |-> table[ObjectId]]
        ELSE [exc |-> "", heap |-> looped.heap,
              cls |-> [name |-> name, bases |-> bases, mro |-> mro, body |-> body,
                       dict |-> looped.dict, has_item_dict |-> TRUE,
                       item_dict |-> looped.item_dict]]

(* The builtin `object`: no metaclass of ours, no _item_dict. *)
ObjectClass ==
    [name |-> "object", bases |-> <<>>, mro |-> <<ObjectId>>, body |-> EmptyBody,
     dict |-> EmptyDict, has_item_dict |-> FALSE, item_dict |-> EmptyDict]

(* Line 72, `class Enum:` and line 295, `class NonUniqueEnum(Enum): pass`. *)
(* Their bodies bind only routines and underscore names, none of which the *)
(* model's attribute names collide with.                                   *)
EnumClass ==
    MetaEnumInit(<<ObjectClass>>, <<>>, "Enum", <<>>, EmptyBody, <<>>,
                 Linearize(<<ObjectClass>>, <<>>).mro).cls

NonUniqueEnumClass ==
    MetaEnumInit(<<ObjectClass, EnumClass>>, <<>>, "NonUniqueEnum", <<EnumId>>, EmptyBody, <<>>,
                 Linearize(<<ObjectClass, EnumClass>>, <<EnumId>>).mro).cls

----------------------------------------------------------------------------
(* The query facade.  Every query is a function of the heap and of one     *)
(* class; it returns a value, a list of pairs, or raises.                  *)

Return(val) == [exc |-> "", val |-> val, list |-> <<>>]
ReturnList(list) == [exc |-> "", val |-> PyNone, list |-> list]
Raise(exc) == [exc |-> exc, val |-> PyNone, list |-> <<>>]

(* key in cls._item_dict.  False hashes and compares as 0. *)
HasKey(cls, key) == key.t \in {"int", "bool"} /\ key.i \in DOMAIN cls.item_dict

(* lookup as it would be if the permissive branch fell back to None, as    *)
(* dict.get does, instead of to the key.                                   *)
lookup_FallbackNone(h, cls, key, get) ==
    IF get
    THEN IF HasKey(cls, key) /\ Truthy(PyItem(cls.item_dict[key.i]))
         THEN Return(h[cls.item_dict[key.i]].name)
         ELSE Return(PyNone)
    ELSE IF HasKey(cls, key) THEN Return(h[cls.item_dict[key.i]].name)
         ELSE Raise("KeyError")

(* Enum.lookup(key, get=False), lines 225-231 *)
lookup(h, cls, key, get) ==
    IF get
    THEN IF HasKey(cls, key) /\ Truthy(PyItem(cls.item_dict[key.i]))
         THEN Return(h[cls.item_dict[key.i]].name)
         ELSE Return(key)
    ELSE IF HasKey(cls, key) THEN Return(h[cls.item_dict[key.i]].name)
         ELSE Raise("KeyError")

(* MetaEnum.__getitem__(key), lines 51-55 *)
getitem(h, cls, key) ==
    IF ~HasKey(cls, key) THEN Raise("KeyError")
    ELSE IF Truthy(PyItem(cls.item_dict[key.i])) THEN Return(h[cls.item_dict[key.i]].value)
    ELSE Return(PyNone)

(* The sort key of line 253: x.sort or x.key *)
SortKey(item) == IF Truthy(item.sort) THEN item.sort.i ELSE item.key

(* sorted(items, key=...): a stable sort, by insertion. *)
RECURSIVE Sorted(_, _)
Sorted(h, ids) ==
    IF ids = <<>> THEN <<>>
    ELSE LET front == Sorted(h, SubSeq(ids, 1, Len(ids) - 1))
             x == ids[Len(ids)]
             before == SelectSeq(front, LAMBDA y : SortKey(h[y]) <= SortKey(h[x]))
             after == SelectSeq(front, LAMBDA y : SortKey(h[y]) > SortKey(h[x]))
         IN  before \o <<x>> \o after

(* cls._item_dict.values(), in the dict's iteration order *)
ItemIds(cls) ==
    LET ks == SortedKeys(DOMAIN cls.item_dict)
    IN  [j \in 1..Len(ks) |-> cls.item_dict[ks[j]]]

(* Enum.verbose(key=False, default=''), lines 248-256 *)
verbose(h, cls, key, default) ==
    IF key = PyFalse
    THEN LET ids == Sorted(h, ItemIds(cls))
         IN  ReturnList([j \in 1..Len(ids) |-> <<PyInt(h[ids[j]].key), h[ids[j]].value>>])
    ELSE IF HasKey(cls, key) /\ Truthy(PyItem(cls.item_dict[key.i]))
         THEN Return(h[cls.item_dict[key.i]].value)
         ELSE Return(default)

(* Enum.get(key, default=None), lines 258-260 *)
get(h, cls, key, default) == verbose(h, cls, key, default)

(* cls._item_dict.items(): (key, item) tuples.  A tuple has no attribute   *)
(* `value`; only an EnumItem has.                                          *)
DictItems(cls) ==
    LET ks == SortedKeys(DOMAIN cls.item_dict)
    IN  [j \in 1..Len(ks) |-> [t |-> "tuple", key |-> ks[j], item |-> cls.item_dict[ks[j]]]]

HasValueAttr(x) == x.t = "EnumItem"

(* Enum.reverbose(val, *args), lines 262-269: the loop variable is bound   *)
(* to the tuples of items(), and line 265 reads item.value of it.          *)
RECURSIVE ReverboseScan(_, _, _, _)
ReverboseScan(h, items, val, args) ==
    IF items = <<>>
    THEN IF Len(args) > 0 THEN Return(args[1]) ELSE Raise("KeyError")
    ELSE LET item == Head(items)
         IN  IF ~HasValueAttr(item) THEN Raise("AttributeError")
             ELSE IF h[item.item].value = val THEN Return(PyInt(h[item.item].key))
             ELSE ReverboseScan(h, Tail(items), val, args)

reverbose(h, cls, val, args) == ReverboseScan(h, DictItems(cls), val, args)

(* Enum.metadata, lines 271-279 *)
metadata(h, cls, args) ==
    IF Len(args) = 0
    THEN LET ids == ItemIds(cls)
         IN  ReturnList([j \in 1..Len(ids) |-> <<PyInt(h[ids[j]].key), h[ids[j]].metadata>>])
    ELSE LET item == IF HasKey(cls, args[1]) THEN PyItem(cls.item_dict[args[1].i])
                     ELSE IF Len(args) > 1 THEN args[2] ELSE PyNone
         IN  IF item.t = "EnumItem" THEN Return(h[item.i].metadata) ELSE Return(item)

(* Reading the attribute `name` off a class (what line 44 wrote, or the    *)
(* body bound): the first class of the resolution order whose namespace    *)
(* binds it.                                                               *)
getattr(table, cls, name) ==
    LET holders == SelectSeq(cls.mro, LAMBDA c : name \in DOMAIN table[c].dict)
    IN  IF holders = <<>> THEN Raise("AttributeError")
        ELSE Return(table[Head(holders)].dict[name])

----------------------------------------------------------------------------
(* The outcome of the last statement: which operation, on which class and  *)
(* arguments, what it raised ("" when nothing), what it returned, and for a *)
(* class statement that raised, the declaration it ran on.                 *)

NoDecl == [name |-> "", bases |-> <<>>, body |-> EmptyBody]

Outcome(op, cls, args, r, decl) ==
    [op |-> op, cls |-> cls, args |-> args, exc |-> r.exc, val |-> r.val, list |-> r.list,
     decl |-> decl]

Init ==
    /\ heap = <<>>
    /\ held = {}
    /\ classes = <<ObjectClass, EnumClass, NonUniqueEnumClass>>
    /\ nstmt = 0
    /\ last = Outcome("import", 0, <<>>, Return(PyNone), NoDecl)

(* The caller constructs an EnumItem and keeps the reference. *)
ItemValues == {PyStr(<<"x">>)}
ItemSorts == {PyNone, PyInt(0)}
ItemMetadata == {PyDict(<<>>)}

NewItem ==
    /\ Cardinality(held) < MaxItems
    /\ \E key \in Keys, value \in ItemValues, sort \in ItemSorts, md \in ItemMetadata :
        /\ heap' = Append(heap, EnumItem(key, value, PyNone, sort, md))
        /\ held' = held \cup {Len(heap) + 1}
        /\ last' = Outcome("EnumItem", 0, <<>>, Return(PyItem(Len(heap) + 1)), NoDecl)
    /\ UNCHANGED <<classes, nstmt>>

(* The bodies a class statement may have: at most n plain attributes, and  *)
(* in legacy mode the `enums` table with at most n entries beside at most  *)
(* n - 1 plain attributes.                                                 *)
Dicts(names, vals, n) ==
    UNION {[S -> vals] : S \in {T \in SUBSET names : Cardinality(T) <= n}}

Bodies(names, vals, n, legacy) ==
    {[attrs |-> a, legacy |-> FALSE, enums |-> EmptyDict] : a \in Dicts(names, vals, n)}
    \cup IF legacy
         THEN {[attrs |-> a, legacy |-> TRUE, enums |-> e] :
                  a \in Dicts(names, vals, n - 1), e \in Dicts(names, vals, n - 1)}
         ELSE {}

BaseLists(among) ==
    {b \in UNION {[1..n -> among] : n \in 1..MaxBases} :
        /\ \A x, y \in 1..Len(b) : b[x] = b[y] => x = y
        /\ \E x \in 1..Len(b) : classes[b[x]].has_item_dict}

(* A class statement of the caller's program. *)
DeclareClass(limit, cnames, among, bodies) ==
    /\ nstmt < limit
    /\ nstmt' = nstmt + 1
    /\ \E name \in cnames, bases \in BaseLists(among), body \in bodies :
        \E order \in Perms(DOMAIN (IF body.legacy THEN body.enums ELSE body.attrs)) :
            LET lin == Linearize(classes, bases)
                decl == [name |-> name, bases |-> bases, body |-> body]
                r == MetaEnumInit(classes, heap, name, bases, body, order, lin.mro)
            IN  IF ~lin.ok
                THEN /\ last' = Outcome("class", 0, <<>>, Raise("TypeError"), decl)
                     /\ UNCHANGED <<heap, classes>>
                ELSE IF r.exc # ""
                THEN /\ last' = Outcome("class", 0, <<>>, Raise(r.exc), decl)
                     /\ heap' = r.heap
                     /\ UNCHANGED classes
                ELSE /\ last' = Outcome("class", Len(classes) + 1, <<>>, Return(PyNone), NoDecl)
                     /\ heap' = r.heap
                     /\ classes' = Append(classes, r.cls)
    /\ UNCHANGED held

(* The queries of the caller's program, on Enum and on its own classes     *)
(* (NonUniqueEnum answers as Enum does: both registries are empty).        *)
EnumClasses == {c \in 1..Len(classes) : classes[c].has_item_dict /\ c # NonUniqueEnumId}
KeyArgs == {PyInt(k) : k \in Keys} \cup {PyStr(<<"q">>)}
Defaults == {PyStr(<<"d">>)}

Lookup ==
    /\ \E c \in EnumClasses, key \in KeyArgs, flag \in BOOLEAN :
        last' = Outcome(IF flag THEN "lookup_get" ELSE "lookup", c, <<key>>,
                        lookup(heap, classes[c], key, flag), NoDecl)
    /\ UNCHANGED <<heap, held, classes, nstmt>>

GetItem ==
    /\ \E c \in EnumClasses, key \in KeyArgs :
        last' = Outcome("getitem", c, <<key>>, getitem(heap, classes[c], key), NoDecl)
    /\ UNCHANGED <<heap, held, classes, nstmt>>

(* verbose() binds key to its default False, verbose(key) default to ''. *)
Verbose ==
    /\ \E c \in EnumClasses, key \in KeyArgs \cup {PyFalse} :
        last' = Outcome("verbose", c, IF key = PyFalse THEN <<>> ELSE <<key>>,
                        verbose(heap, classes[c], key, PyStr(<<>>)), NoDecl)
    /\ UNCHANGED <<heap, held, classes, nstmt>>

(* get(key) binds default to None. *)
Get ==
    /\ \E c \in EnumClasses, key \in KeyArgs, rest \in {<<>>} \cup {<<d>> : d \in Defaults} :
        last' = Outcome("get", c, <<key>> \o rest,
                        get(heap, classes[c], key, IF rest = <<>> THEN PyNone ELSE rest[1]),
                        NoDecl)
    /\ UNCHANGED <<heap, held, classes, nstmt>>

Reverbose ==
    /\ \E c \in EnumClasses, val \in {PyStr(<<"x">>), PyStr(<<"A">>)},
          rest \in {<<>>} \cup {<<d>> : d \in Defaults} :
        last' = Outcome("reverbose", c, <<val>> \o rest,
                        reverbose(heap, classes[c], val, rest), NoDecl)
    /\ UNCHANGED <<heap, held, classes, nstmt>>

Metadata ==
    /\ \E c \in EnumClasses, key \in KeyArgs, rest \in {<<>>} \cup {<<d>> : d \in Defaults} :
        last' = Outcome("metadata", c, <<key>> \o rest,
                        metadata(heap, classes[c], <<key>> \o rest), NoDecl)
    /\ UNCHANGED <<heap, held, classes, nstmt>>

GetAttr ==
    /\ \E c \in EnumClasses, name \in Names :
        last' = Outcome("getattr", c, <<PyStr(name)>>,
                        getattr(classes, classes[c], name), NoDecl)
    /\ UNCHANGED <<heap, held, classes, nstmt>>

Query == Lookup \/ GetItem \/ Verbose \/ Get \/ Reverbose \/ Metadata \/ GetAttr

----------------------------------------------------------------------------
(* Spec: one class statement of every declaration shape, in both modes,    *)
(* over every list of bases.                                               *)
ShapeVals ==
    {PyInt(k) : k \in Keys}
    \cup {PyTuple2(1, <<"x">>), PyTuple3(1, <<"x">>, <<"m">>), PyFunc}
    \cup {PyItem(id) : id \in held}

Next ==
    \/ NewItem
    \/ DeclareClass(MaxClasses, ClassNames, 1..Len(classes),
                    Bodies(Names, ShapeVals, MaxBody, TRUE))

Spec == Init /\ [][Next]_vars

(* SpecInherit: chains and diamonds of strict classes, each body binding   *)
(* at most one name.                                                       *)
MaxDepth == 3

InheritVals ==
    {PyInt(1), PyInt(2), PyTuple2(1, <<"x">>), PyTuple2(1, <<"y">>)}
    \cup {PyItem(id) : id \in held}

StrictClasses == {c \in 1..Len(classes) : c = EnumId \/ c > NonUniqueEnumId}

NewItemOne ==
    /\ held = {}
    /\ heap' = Append(heap, EnumItem(1, PyStr(<<"x">>), PyNone, PyNone, PyDict(<<>>)))
    /\ held' = {Len(heap) + 1}
    /\ last' = Outcome("EnumItem", 0, <<>>, Return(PyItem(Len(heap) + 1)), NoDecl)
    /\ UNCHANGED <<classes, nstmt>>

NextInherit ==
    \/ NewItemOne
    \/ DeclareClass(MaxDepth, {"T"}, StrictClasses,
                    Bodies({<<"A">>, <<"B">>}, InheritVals, 1, FALSE))

SpecInherit == Init /\ [][NextInherit]_vars

(* SpecQuery: one class statement and the queries on the classes.          *)
QueryVals ==
    {PyInt(1), PyTuple2(1, <<"x">>), PyTuple3(2, <<"y">>, <<"m">>)}
    \cup {PyItem(id) : id \in held}

NextQuery ==
    \/ NewItem
    \/ DeclareClass(MaxClasses, {"T"}, {EnumId, NonUniqueEnumId},
                    Bodies({<<"A">>, <<"B">>}, QueryVals, MaxBody, FALSE))
    \/ Query

SpecQuery == Init /\ [][NextQuery]_vars

----------------------------------------------------------------------------
(* What a class statement declared, read off the class record. *)

UserIds == (NonUniqueEnumId + 1)..Len(classes)

(* The names the body loop of the class registered (lines 20-31). *)
Declared(name, body) ==
    LET table == IF body.legacy THEN body.enums ELSE body.attrs
        order == CHOOSE p \in Perms(DOMAIN table) : TRUE
        enums == Enums(name, body, order)
    IN  {enums[j][1] : j \in {x \in 1..Len(enums) :
                                 ~Skipped(UnderscoreCheck(body), enums[x][1], enums[x][2])}}

DeclVal(body, n) == IF body.legacy THEN body.enums[n] ELSE body.attrs[n]

(* The key and the label a declared value stands for. *)
DeclKey(h, val) == IF val.t = "EnumItem" THEN h[val.i].key ELSE val.i
DeclLabel(h, n, val) ==
    IF val.t = "EnumItem" THEN h[val.i].value
    ELSE IF val.t \in {"tuple2", "tuple3"} THEN PyStr(val.s)
    ELSE PyStr(n)

(* The keys the bases of a class carry. *)
InheritedKeys(table, bases) ==
    UNION {DOMAIN table[bases[b]].item_dict : b \in 1..Len(bases)}

----------------------------------------------------------------------------
(* C6: the names a class body registers are, in default mode, exactly its  *)
(* attributes that neither start with an underscore nor are routines (an   *)
(* underscore attribute stays a plain attribute with its raw value and     *)
(* adds no key); in legacy mode, exactly the non-routine entries of the    *)
(* `enums` table, underscore names included, and no other attribute.       *)
C6_Expected(body) ==
    IF body.legacy THEN {n \in DOMAIN body.enums : body.enums[n].t # "function"}
    ELSE {n \in DOMAIN body.attrs : n[1] # "_" /\ body.attrs[n].t # "function"}

C6_HoldsOf(c) ==
    LET cls == classes[c]
        body == cls.body
        exp == C6_Expected(body)
    IN  /\ DOMAIN cls.item_dict =
              InheritedKeys(classes, cls.bases)
              \cup {DeclKey(heap, DeclVal(body, n)) : n \in exp}
        /\ \A n \in exp : cls.dict[n] = PyInt(DeclKey(heap, DeclVal(body, n)))
        /\ \A n \in (DOMAIN body.attrs) \ exp : cls.dict[n] = body.attrs[n]

C6_RegisteredNames == \A c \in UserIds : C6_HoldsOf(c)

(* The same, of the classes not named Enum. *)
C6_ExceptNamedEnum == \A c \in UserIds : classes[c].name # "Enum" => C6_HoldsOf(c)

----------------------------------------------------------------------------
(* C1: for every class constructed in strict mode and every entry of its   *)
(* registry, declared on its body or inherited, lookup(key) returns the    *)
(* name the entry was declared under and verbose(key) its label.           *)

(* The declaration a key of class c goes back to: the class's own body if  *)
(* it registers the key, else the last base that carries the key.          *)
RECURSIVE C1_Origin(_, _)
C1_Origin(c, k) ==
    LET cls == classes[c]
        own == {n \in Declared(cls.name, cls.body) : DeclKey(heap, DeclVal(cls.body, n)) = k}
        from == {b \in 1..Len(cls.bases) : k \in DOMAIN classes[cls.bases[b]].item_dict}
    IN  IF own # {}
        THEN LET n == CHOOSE x \in own : TRUE
             IN  [name |-> PyStr(n), label |-> DeclLabel(heap, n, DeclVal(cls.body, n))]
        ELSE C1_Origin(cls.bases[CHOOSE b \in from : \A y \in from : y <= b], k)

C1_LookupVerbose ==
    \A c \in UserIds :
        ~IsNonUnique(classes[c].mro) =>
            \A k \in DOMAIN classes[c].item_dict :
                /\ lookup(heap, classes[c], PyInt(k), FALSE) = Return(C1_Origin(c, k).name)
                /\ verbose(heap, classes[c], PyInt(k), PyStr(<<>>)) = Return(C1_Origin(c, k).label)

(* C2: in strict mode a class with an empty body over a list of bases      *)
(* fails with a definition conflict if and only if two bases bind one key  *)
(* to entries whose (name, value) differ; when it succeeds its registry    *)
(* has exactly the keys of the union of the bases' registries.             *)
C2_Differ(bases) ==
    \E a, b \in 1..Len(bases) :
        \E k \in (DOMAIN classes[bases[a]].item_dict) \cap (DOMAIN classes[bases[b]].item_dict) :
            LET x == heap[classes[bases[a]].item_dict[k]]
                y == heap[classes[bases[b]].item_dict[k]]
            IN  x.name # y.name \/ x.value # y.value

C2_BaseMergeConflict ==
    /\ \A c \in UserIds :
           (DOMAIN classes[c].body.attrs = {} /\ ~classes[c].body.legacy
                /\ ~IsNonUnique(classes[c].mro)) =>
               /\ ~C2_Differ(classes[c].bases)
               /\ DOMAIN classes[c].item_dict = InheritedKeys(classes, classes[c].bases)
    /\ (last.op = "class" /\ last.exc = "Exception"
            /\ DOMAIN last.decl.body.attrs = {} /\ ~last.decl.body.legacy) =>
           C2_Differ(last.decl.bases)

(* C8: in strict mode a body declaration raises a definition conflict only *)
(* when its key is already bound to an entry with a different name; with   *)
(* the key bound under the same name, construction succeeds.               *)
C8_Justified(decl) ==
    LET mro == Linearize(classes, decl.bases).mro
        merged == MergeBases(classes, heap, ~IsNonUnique(mro), decl.bases, EmptyDict)
        names == Declared(decl.name, decl.body)
        key(n) == DeclKey(heap, DeclVal(decl.body, n))
    IN  \/ merged.exc # ""
        \/ \E n \in names :
               \/ key(n) \in DOMAIN merged.item_dict
                      /\ heap[merged.item_dict[key(n)]].name # PyStr(n)
               \/ \E n2 \in names \ {n} : key(n2) = key(n)

C8_ConflictOnlyOnOtherName ==
    (last.op = "class" /\ last.exc = "Exception") => C8_Justified(last.decl)

(* C9: once a class's registry is built, no later statement changes it:    *)
(* every key keeps its name, value, sort and metadata.                     *)
C9_RegistryFrozen ==
    [][\A c \in 1..Len(classes) :
           /\ classes'[c].item_dict = classes[c].item_dict
           /\ \A k \in DOMAIN classes[c].item_dict :
                  heap'[classes[c].item_dict[k]] = heap[classes[c].item_dict[k]]]_vars

C10_Binds(cls, n) ==
    n \in DOMAIN cls.body.attrs \/ n \in Declared(cls.name, cls.body)

C10_Bound(cls, n) ==
    IF n \in Declared(cls.name, cls.body)
    THEN PyInt(DeclKey(heap, DeclVal(cls.body, n)))
    ELSE cls.body.attrs[n]

----------------------------------------------------------------------------
(* C3: for a class with no two entries sharing a label and every key k of  *)
(* its registry, reverbose(verbose(k)) returns k; for a label no entry     *)
(* carries, reverbose(label) raises not-found and reverbose(label, d)      *)
(* returns d.                                                              *)
C3_Carriers(cls, label) ==
    {k \in DOMAIN cls.item_dict : heap[cls.item_dict[k]].value = label}

C3_ReverboseRoundTrip ==
    last.op = "reverbose" =>
        LET cls == classes[last.cls]
            carriers == C3_Carriers(cls, last.args[1])
        IN  (\A k1, k2 \in DOMAIN cls.item_dict :
                 heap[cls.item_dict[k1]].value = heap[cls.item_dict[k2]].value => k1 = k2) =>
                IF carriers # {}
                THEN last.exc = "" /\ last.val.t = "int" /\ last.val.i \in carriers
                ELSE IF Len(last.args) > 1
                THEN last.exc = "" /\ last.val = last.args[2]
                ELSE last.exc = "KeyError"

(* C4: metadata(k) is None for an entry declared as a bare scalar or as a  *)
(* 2-tuple and the third element for one declared as a 3-tuple; for an     *)
(* absent key metadata(k, d) is d.                                         *)
C4_MetadataByShape ==
    (last.op = "metadata" /\ last.cls \in UserIds) =>
        LET cls == classes[last.cls]
            k == last.args[1]
            shapes == {DeclVal(cls.body, n).t :
                          n \in {x \in Declared(cls.name, cls.body) :
                                    PyInt(DeclKey(heap, DeclVal(cls.body, x))) = k}}
        IN  /\ shapes \in {{"int"}, {"tuple2"}} => last.exc = "" /\ last.val = PyNone
            /\ shapes = {"tuple3"} =>
                   last.exc = "" /\ last.val \in {PyStr(m) : m \in Metas}
            /\ (~HasKey(cls, k) /\ Len(last.args) > 1) =>
                   last.exc = "" /\ last.val = last.args[2]

(* C5: verbose() returns one (key, label) pair per entry, ascending by the *)
(* entry's sort where one is set (0 included) and by its key where sort is *)
(* unset.                                                                  *)
C5_Order(item) == IF item.sort # PyNone THEN item.sort.i ELSE item.key

C5_VerboseSorted ==
    (last.op = "verbose" /\ last.args = <<>>) =>
        LET cls == classes[last.cls]
            entry(j) == heap[cls.item_dict[last.list[j][1].i]]
        IN  /\ last.exc = ""
            /\ {last.list[j][1].i : j \in 1..Len(last.list)} = DOMAIN cls.item_dict
            /\ Len(last.list) = Cardinality(DOMAIN cls.item_dict)
            /\ \A j \in 1..Len(last.list) : last.list[j][2] = entry(j).value
            /\ \A a, b \in 1..Len(last.list) :
                   a < b => C5_Order(entry(a)) <= C5_Order(entry(b))

(* C7: for a key (an integer or a string) absent from the registry of a    *)
(* class, lookup(k) and cls[k] raise KeyError, lookup(k, get=True) returns *)
(* k, verbose(k) returns '', get(k) returns None and get(k, d) returns d;  *)
(* none of these calls changes a registry or an entry.                     *)
C7_Ops == {"lookup", "lookup_get", "getitem", "verbose", "get"}

C7_Absent(o) ==
    /\ o.op \in C7_Ops
    /\ Len(o.args) > 0
    /\ o.args[1].t \in {"int", "str"}
    /\ ~HasKey(classes[o.cls], o.args[1])

C7_Outcome ==
    C7_Absent(last) =>
        CASE last.op \in {"lookup", "getitem"} -> last.exc = "KeyError"
          [] last.op = "lookup_get" -> last.exc = "" /\ last.val = last.args[1]
          [] last.op = "verbose" -> last.exc = "" /\ last.val = PyStr(<<>>)
          [] last.op = "get" ->
                 /\ last.exc = ""
                 /\ last.val = IF Len(last.args) > 1 THEN last.args[2] ELSE PyNone

C7_Frame == C7_Absent(last') => (classes' = classes /\ heap' = heap)

C7_AbsentKey == [](C7_Outcome) /\ [][C7_Frame]_vars

(* An absent key looked up on a declared class whose registry is not empty. *)
C7_Witness ==
    /\ C7_Absent(last)
    /\ last.op = "lookup_get"
    /\ last.cls \in UserIds
    /\ DOMAIN classes[last.cls].item_dict # {}
    /\ last.val = last.args[1]

====
